---- MODULE Spec2Model ----
(***************************************************************************)
(* Model of NPGOffPolicy (mjrl/algos/npg_off_policy.py): the training      *)
(* loop train_step, the policy update update_policy /                      *)
(* update_from_states_actions and the two advantage sources process_paths  *)
(* and process_replay.                                                     *)
(*                                                                         *)
(* Numbers.  Floating point values are modelled on an integer grid with    *)
(* the three IEEE specials.  A finite value is an integer of magnitude at  *)
(* most MaxMag; a result beyond that overflows to +inf / -inf; NaN is      *)
(* produced by 0/0, inf-inf, 0*inf and is propagated by every operation.   *)
(* Advantage weights, Q/V values, losses and rewards are fixed point with  *)
(* One grid units to 1.0.  Parameters, gradients and step sizes are plain  *)
(* grid values.  The two additive epsilons of the source (1e-6 and 1e-20)  *)
(* are the smallest positive value of the grid.                            *)
(***************************************************************************)
EXTENDS Integers, Sequences, FiniteSets

\* ---------------------------------------------------------------- bounds
MaxMag == 10000       \* largest finite magnitude of the grid
One == 100            \* fixed-point scale of weights, values and rewards
MaxUpdates == 2       \* largest configured num_policy_updates
MaxUpdateStates == 3  \* largest configured num_update_states

\* ------------------------------------------------- floating point values
PosInf == MaxMag + 1
NegInf == 0 - (MaxMag + 1)
NaN == MaxMag + 2

IsNaN(x) == x = NaN
IsInf(x) == x = PosInf \/ x = NegInf
IsFinite(x) == ~IsNaN(x) /\ ~IsInf(x)
IAbs(x) == IF x < 0 THEN 0 - x ELSE x
Sgn(x) == IF x = 0 THEN 0 ELSE IF x < 0 THEN 0 - 1 ELSE 1
SignedInf(s) == IF s < 0 THEN NegInf ELSE PosInf
\* rounding of an exact integer result to the grid: overflow goes to +-inf
Fin(x) == IF x > MaxMag THEN PosInf ELSE IF x < 0 - MaxMag THEN NegInf ELSE x
\* integer quotient rounded toward zero
Quot(x, y) == Sgn(x) * Sgn(y) * (IAbs(x) \div IAbs(y))

FAdd(x, y) ==
    IF IsNaN(x) \/ IsNaN(y) THEN NaN
    ELSE IF IsInf(x) /\ IsInf(y) THEN (IF x = y THEN x ELSE NaN)
    ELSE IF IsInf(x) THEN x
    ELSE IF IsInf(y) THEN y
    ELSE Fin(x + y)

FNeg(x) == IF IsNaN(x) THEN NaN ELSE IF IsInf(x) THEN SignedInf(0 - Sgn(x)) ELSE 0 - x

FSub(x, y) == FAdd(x, FNeg(y))

\* product of two plain grid values
FMul(x, y) ==
    IF IsNaN(x) \/ IsNaN(y) THEN NaN
    ELSE IF IsInf(x) \/ IsInf(y)
         THEN (IF x = 0 \/ y = 0 THEN NaN ELSE SignedInf(Sgn(x) * Sgn(y)))
    ELSE Fin(x * y)

\* product of two fixed-point values
FxMul(x, y) ==
    IF IsNaN(x) \/ IsNaN(y) THEN NaN
    ELSE IF IsInf(x) \/ IsInf(y)
         THEN (IF x = 0 \/ y = 0 THEN NaN ELSE SignedInf(Sgn(x) * Sgn(y)))
    ELSE Fin(Quot(x * y, One))

\* quotient x/y of two values, scaled by s (s = 1: plain, s = One: fixed point)
FDivS(x, y, s) ==
    IF IsNaN(x) \/ IsNaN(y) THEN NaN
    ELSE IF IsInf(x) THEN (IF IsInf(y) THEN NaN
                           ELSE SignedInf(Sgn(x) * (IF y < 0 THEN 0 - 1 ELSE 1)))
    ELSE IF IsInf(y) THEN 0
    ELSE IF y = 0 THEN (IF x = 0 THEN NaN ELSE SignedInf(Sgn(x)))
    ELSE Fin(Quot(x * s, y))

RECURSIVE SqrtSearch(_, _, _)
SqrtSearch(n, lo, hi) ==
    IF lo >= hi THEN lo
    ELSE LET mid == (lo + hi + 1) \div 2
         IN  IF mid * mid <= n THEN SqrtSearch(n, mid, hi) ELSE SqrtSearch(n, lo, mid - 1)
\* floor of the square root of a natural number
Isqrt(n) == SqrtSearch(n, 0, IF n < 40000 THEN n ELSE 40000)

\* np.sqrt of a fixed-point value: NaN for a negative argument
FxSqrt(x) ==
    IF IsNaN(x) THEN NaN
    ELSE IF x = PosInf THEN PosInf
    ELSE IF x < 0 THEN NaN
    ELSE Fin(Isqrt(x * One))

RECURSIVE SumSeq(_)
SumSeq(s) == IF s = <<>> THEN 0 ELSE FAdd(s[1], SumSeq(Tail(s)))

RECURSIVE MinSeq(_)
MinSeq(s) == IF Len(s) = 1 THEN s[1]
             ELSE LET m == MinSeq(Tail(s)) IN IF s[1] < m THEN s[1] ELSE m
RECURSIVE MaxSeq(_)
MaxSeq(s) == IF Len(s) = 1 THEN s[1]
             ELSE LET m == MaxSeq(Tail(s)) IN IF s[1] > m THEN s[1] ELSE m

\* np.mean / np.std of a non-empty array of fixed-point values
Mean(s) == FDivS(SumSeq(s), Len(s), 1)
Std(s) ==
    LET m == Mean(s)
        sq == [i \in 1..Len(s) |-> FxMul(FSub(s[i], m), FSub(s[i], m))]
    IN  FxSqrt(Mean(sq))


\* ------------------------------------------------------------ optionals
\* Python's None is the empty sequence, a present value x is <<x>>
None == <<>>
Some(x) == <<x>>

\* ------------------------------------------------------ input domains
ZeroVec == <<0, 0>>
NaNVec == <<NaN, NaN>>
InitParams == {<<3, 0 - 2>>}
ActionSet == {0, 1}
\* the iteration argument of train_step: omitted, or an index
IterationArgs == {None, Some(0), Some(7)}
\* (self.alpha, self.n_step_size) as set by the NPG constructor
StepCfgs == {[alpha |-> None, n_step_size |-> 4], [alpha |-> Some(1), n_step_size |-> 4]}
NumUpdateStatesSet == (MaxUpdateStates - 1)..MaxUpdateStates

\* trajectories the sampler can return; rewards are fixed point
PathA == [observations |-> <<1, 2>>, actions |-> <<0, 1>>, time |-> <<0, 1>>,
          rewards |-> <<One, 2 * One>>]
PathB == [observations |-> <<3>>, actions |-> <<1>>, time |-> <<0>>, rewards |-> <<0>>]
PathsSet == {<<PathA>>, <<PathB, PathA>>}

\* outcomes of one bellman_update: the estimator it leaves behind ("flat" has
\* Q = V everywhere) with the loss breakdown (arrays) and elapsed time it reports
BellmanCases ==
    {[qfun |-> "flat", total |-> <<3 * One, One>>, bellman |-> <<2 * One, One>>,
      reconstruction |-> <<One, 0>>, reward |-> <<0, 0>>, update_time |-> 1],
     [qfun |-> "peaked", total |-> <<One, One>>, bellman |-> <<One, 0>>,
      reconstruction |-> <<0, 0>>, reward |-> <<0, One>>, update_time |-> 2]}
\* (vanilla gradient, CG direction) pairs flat_vpg / cg_solve can return for a
\* batch with a non-zero weight: g.d positive, zero, negative, -eps, NaN, inf
GradDirSet ==
    {[g |-> <<20, 0>>, d |-> <<20, 0>>],
     [g |-> <<10, 10>>, d |-> <<10, 0 - 10>>],
     [g |-> <<10, 0>>, d |-> <<0 - 20, 0>>],
     [g |-> <<1, 0>>, d |-> <<0 - 1, 0>>],
     [g |-> <<1, 0>>, d |-> <<NaN, 0>>],
     [g |-> <<1, 0>>, d |-> <<PosInf, 1>>]}
\* values CPI_surrogate can return once the parameters have moved
SurrVals == {0 - One, One}

\* ------------------------------------------------------------ estimator
QValue(q, o, a) == IF q = "flat" THEN One ELSE 3 * One * a
VValue(q, o) == One
Predict(q, obs, acts) == [i \in 1..Len(obs) |-> QValue(q, obs[i], acts[i])]
ComputeAverageValue(q, obs) == [i \in 1..Len(obs) |-> VValue(q, obs[i])]

\* --------------------------------------------------------- trajectories
RECURSIVE Concat(_, _)
Concat(ps, f) == IF ps = <<>> THEN <<>> ELSE ps[1][f] \o Concat(Tail(ps), f)

RECURSIVE DiscountedReturns(_)
\* returns[t] = rewards[t] + gamma * returns[t+1], gamma = 0.995
DiscountedReturns(r) ==
    IF r = <<>> THEN <<>>
    ELSE LET rest == DiscountedReturns(Tail(r))
             nxt == IF rest = <<>> THEN 0 ELSE rest[1]
         IN  <<FAdd(r[1], FDivS(FMul(995, nxt), 1000, 1))>> \o rest
ComputeReturns(ps) ==
    [i \in 1..Len(ps) |->
        [observations |-> ps[i].observations, actions |-> ps[i].actions,
         time |-> ps[i].time, rewards |-> ps[i].rewards,
         returns |-> DiscountedReturns(ps[i].rewards)]]

\* buffer.push_many: every transition of every path is appended
PushMany(buf, ps) ==
    buf \o [i \in 1..Len(Concat(ps, "observations")) |->
               [observation |-> Concat(ps, "observations")[i],
                action |-> Concat(ps, "actions")[i],
                time |-> Concat(ps, "time")[i],
                target |-> Concat(ps, "returns")[i]]]

\* buffer.get_sample(n): n stored entries; the draws modelled are the runs of n
\* consecutive entries (wrapping around) from any starting entry
GetSample(buf, n) ==
    {[i \in 1..n |-> buf[((s + i - 2) % Len(buf)) + 1]] : s \in 1..Len(buf)}

\* policy.get_action_batch(observations): one action per observation; the draws
\* modelled are the constant batches and the alternating one
GetActionBatch(n) ==
    {[i \in 1..n |-> a] : a \in ActionSet} \cup {[i \in 1..n |-> i % 2]}

\* ----------------------------------------------------- advantage sources
\* process_paths: the triple (observations, actions, weights)
ProcessPaths(ps, q) ==
    LET obs == Concat(ps, "observations")
        acts == Concat(ps, "actions")
        Qs == Predict(q, obs, acts)
        Vs == ComputeAverageValue(q, obs)
    IN  [observations |-> obs, actions |-> acts, Qs |-> Qs, Vs |-> Vs,
         weights |-> [i \in 1..Len(obs) |-> FSub(Qs[i], Vs[i])]]

\* process_replay: samples are buffer entries, acts the actions resampled from
\* the current policy; what the function returns is the weights array alone
ProcessReplay(samples, acts, q) ==
    LET obs == [i \in 1..Len(samples) |-> samples[i].observation]
        Qs == Predict(q, obs, acts)
        Vs == ComputeAverageValue(q, obs)
    IN  [observations |-> obs, actions |-> acts, Qs |-> Qs, Vs |-> Vs,
         returned |-> [i \in 1..Len(obs) |-> FSub(Qs[i], Vs[i])]]

\* "observations, actions, weights = <array>": unpacking iterates the array's
\* first axis and needs exactly three items
UnpackOk(arr) == Len(arr) = 3

STD_EPS == 1
\* weights = (weights - np.mean(weights)) / (np.std(weights) + 1e-6)
NormalizeWeightsNoEps(w) ==
    [i \in 1..Len(w) |-> FDivS(FSub(w[i], Mean(w)), Std(w), One)]
NormalizeWeights(w) ==
    [i \in 1..Len(w) |-> FDivS(FSub(w[i], Mean(w)), FAdd(Std(w), STD_EPS), One)]

AllZero(w) == \A i \in 1..Len(w) : w[i] = 0
AnyNaN(w) == \E i \in 1..Len(w) : IsNaN(w[i])
AllFinite(w) == \A i \in 1..Len(w) : IsFinite(w[i])

\* ------------------------------------------- external policy computations
\* CPI_surrogate: the mean of ratio(new, old) * weight.  It is 0 for weights
\* that are all zero; the ratio is 1 when the current and reference parameters
\* coincide; u is the value returned otherwise
CPISurrogate(cur, old, w, u) ==
    IF AnyNaN(w) THEN NaN
    ELSE IF AllZero(w) THEN 0
    ELSE IF ~AllFinite(cur) \/ ~AllFinite(old) THEN NaN
    ELSE IF cur = old THEN Mean(w)
    ELSE u

\* the values u that CPI_surrogate's result depends on
SurrCases(cur, old, w) ==
    IF AnyNaN(w) \/ ~AllFinite(cur) \/ ~AllFinite(old) \/ cur = old \/ AllZero(w)
    THEN {0} ELSE SurrVals

\* kl_old_new: zero for equal parameters, growing with their distance
KlOldNew(cur, old) ==
    IF cur = old THEN 0
    ELSE IF ~AllFinite(cur) \/ ~AllFinite(old) THEN NaN
    ELSE SumSeq([i \in 1..Len(cur) |-> FMul(FSub(cur[i], old[i]), FSub(cur[i], old[i]))])

\* flat_vpg followed by cg_solve (warm start x_0 = vpg_grad): a batch whose
\* weights are all zero has a zero gradient and a zero direction
GradDirCases(w) ==
    IF AnyNaN(w) THEN {[g |-> NaNVec, d |-> NaNVec]}
    ELSE IF AllZero(w) THEN {[g |-> ZeroVec, d |-> ZeroVec]}
    ELSE GradDirSet

\* np.dot(vpg_grad.T, npg_grad)
Dot(g, d) == SumSeq([i \in 1..Len(g) |-> FMul(g[i], d[i])])

\* ------------------------------------------------------------- step size
\* The step scale alpha is kept exact: kind "fin" is the non-negative root
\* sqrt(num/den) with num >= 0 and den > 0, "inf" is +inf, "nan" is NaN.
AlphaFin(num, den) == [kind |-> "fin", num |-> num, den |-> den]
AlphaInf == [kind |-> "inf", num |-> 0, den |-> 1]
AlphaNaN == [kind |-> "nan", num |-> 0, den |-> 1]

ALPHA_EPS == 1
\* np.sqrt(n / (gd + 1e-20)) without the np.abs
TrustRegionAlphaNoAbs(n, gd) ==
    LET den == FAdd(gd, ALPHA_EPS)
    IN  IF IsNaN(den) THEN AlphaNaN
        ELSE IF IsInf(den) THEN AlphaFin(0, 1)
        ELSE IF den = 0 THEN (IF n = 0 THEN AlphaNaN ELSE IF n > 0 THEN AlphaInf ELSE AlphaNaN)
        ELSE IF Sgn(n) * Sgn(den) < 0 THEN AlphaNaN
        ELSE AlphaFin(IAbs(n), IAbs(den))
\* alpha = np.sqrt(np.abs(self.n_step_size / (np.dot(vpg_grad.T, npg_grad) + 1e-20)))
TrustRegionAlpha(n, gd) ==
    LET den == FAdd(gd, ALPHA_EPS)
    IN  IF IsNaN(den) THEN AlphaNaN
        ELSE IF IsInf(den) THEN AlphaFin(0, 1)
        ELSE IF den = 0 THEN (IF n = 0 THEN AlphaNaN ELSE AlphaInf)
        ELSE AlphaFin(IAbs(n), IAbs(den))

\* alpha = self.alpha (a configured non-negative learning rate)
FixedAlpha(a) == AlphaFin(a * a, 1)

\* (alpha ** 2) * x
AlphaSqTimes(alpha, x) ==
    IF alpha.kind = "nan" \/ IsNaN(x) THEN NaN
    ELSE IF alpha.kind = "inf" THEN (IF x = 0 THEN NaN ELSE SignedInf(Sgn(x)))
    ELSE FDivS(FMul(alpha.num, x), alpha.den, 1)

\* alpha * x, rounded to the grid
AlphaTimes(alpha, x) ==
    IF alpha.kind = "nan" \/ IsNaN(x) THEN NaN
    ELSE IF alpha.kind = "inf" THEN (IF x = 0 THEN NaN ELSE SignedInf(Sgn(x)))
    ELSE IF IsInf(x) THEN (IF alpha.num = 0 THEN NaN ELSE x)
    ELSE Fin(Sgn(x) * ((Isqrt((4 * alpha.num * x * x) \div alpha.den) + 1) \div 2))

\* the step size computation of update_from_states_actions
StepAlpha(acfg, n, gd) == IF acfg # None THEN FixedAlpha(acfg[1]) ELSE TrustRegionAlpha(n, gd)
StepSize(acfg, n, gd) ==
    IF acfg # None THEN AlphaSqTimes(FixedAlpha(acfg[1]), gd) ELSE n

\* new_params = curr_params + alpha * npg_grad
NewParams(cur, alpha, d) == [i \in 1..Len(cur) |-> FAdd(cur[i], AlphaTimes(alpha, d[i]))]

\* set_param_values(new_params, set_new=True, set_old=False) inside
\* update_from_states_actions: the current parameters are written, the reference
\* parameters are left alone
StepSetsNewMutant == FALSE
StepSetsNew == TRUE
StepSetsOldMutant == TRUE
StepSetsOld == FALSE

\* if np.isnan(new_params).any()
HasNaN(p) == \E i \in 1..Len(p) : IsNaN(p[i])
HasNonFinite(p) == \E i \in 1..Len(p) : ~IsFinite(p[i])

\* ================================================================ state
VARIABLES
    \* NPGOffPolicy fields
    num_policy_updates, num_update_states, fit_on_policy, fit_off_policy,
    summary_writer, alpha_cfg, n_step_size,
    \* policy: current and reference (old) parameters
    cur_params, old_params,
    \* value estimator and its replay buffer
    qfun, buffer,
    \* metrics sink: the scalars recorded so far
    writer_log,
    \* train_step: position, arguments, locals, result
    pc, err, iteration, paths, k, update_stats, loss_lists,
    total_update_time, pending_loss, ret,
    \* update_policy / update_from_states_actions locals
    src, replay_ret, samp_obs, samp_act, Qs, Vs, raw_weights,
    observations, actions, weights, surr_before,
    vpg_grad, npg_grad, alpha, step_size, new_params,
    \* history: parameters at the start of the sub-iteration, whether its batch
    \* had Q = V for every sample, calls made so far ("push", "bellman", "policy")
    cur0, old0, batch_degenerate, trace

cfgVars == <<num_policy_updates, num_update_states, fit_on_policy, fit_off_policy,
             summary_writer, alpha_cfg, n_step_size>>
policyVars == <<cur_params, old_params>>
loopVars == <<iteration, paths, k, update_stats, loss_lists, total_update_time,
              pending_loss, ret>>
srcVars == <<src, replay_ret, samp_obs, samp_act, Qs, Vs, raw_weights,
             observations, actions, weights, surr_before>>
stepVars == <<vpg_grad, npg_grad, alpha, step_size, new_params>>
vars == <<cfgVars, policyVars, qfun, buffer, writer_log, pc, err, loopVars,
          srcVars, stepVars, cur0, old0, batch_degenerate, trace>>

EmptyLosses == [total |-> <<>>, bellman |-> <<>>, reconstruction |-> <<>>, reward |-> <<>>]
NoLoss == [total |-> <<>>, bellman |-> <<>>, reconstruction |-> <<>>, reward |-> <<>>,
           update_time |-> 0]

\* the trainer after __init__, with a freshly built policy (reference = current)
Init ==
    /\ num_policy_updates \in 0..MaxUpdates
    /\ num_update_states \in NumUpdateStatesSet
    /\ fit_on_policy \in BOOLEAN
    /\ fit_off_policy \in BOOLEAN
    /\ summary_writer \in BOOLEAN
    /\ \E c \in StepCfgs : alpha_cfg = c.alpha /\ n_step_size = c.n_step_size
    /\ cur_params \in InitParams
    /\ old_params = cur_params
    /\ qfun = "flat"
    /\ buffer = <<>>
    /\ writer_log = {}
    /\ pc = "idle" /\ err = "none"
    /\ iteration = None /\ paths = <<>> /\ k = 0
    /\ update_stats = <<>> /\ loss_lists = EmptyLosses
    /\ total_update_time = 0 /\ pending_loss = NoLoss /\ ret = <<>>
    /\ src = "none" /\ replay_ret = <<>> /\ samp_obs = <<>> /\ samp_act = <<>>
    /\ Qs = <<>> /\ Vs = <<>> /\ raw_weights = <<>>
    /\ observations = <<>> /\ actions = <<>> /\ weights = <<>> /\ surr_before = 0
    /\ vpg_grad = ZeroVec /\ npg_grad = ZeroVec /\ alpha = AlphaFin(0, 1)
    /\ step_size = 0 /\ new_params = cur_params
    /\ cur0 = cur_params /\ old0 = old_params /\ batch_degenerate = FALSE
    /\ trace = <<>>

\* ------------------------------------------------------------ train_step
\* "if iteration is None: raise"
IterationMissing(it) == it = None

\* the replay buffer after lines 57-75 of train_step
BufferAfterEntryMutant(it, buf, ps) == PushMany(buf, ComputeReturns(ps))
BufferAfterEntry(it, buf, ps) ==
    IF IterationMissing(it) THEN buf ELSE PushMany(buf, ComputeReturns(ps))

\* "for k in range(self.num_policy_updates)": one more sub-iteration to run
LoopContinuesMutant(kk, n) == kk <= n
LoopContinues(kk, n) == kk < n

\* train_step up to the loop: the iteration check, sampling, compute_returns,
\* push_many and the initialisation of the per-call lists
TrainStepEntry ==
    /\ pc = "idle"
    /\ \E it \in IterationArgs, ps \in PathsSet :
          /\ iteration' = it
          /\ buffer' = BufferAfterEntry(it, buffer, ps)
          /\ IF IterationMissing(it)
             THEN /\ pc' = "fatal" /\ err' = "no_iteration"
                  /\ UNCHANGED <<paths, trace>>
             ELSE /\ pc' = "loop" /\ err' = "none"
                  /\ paths' = ComputeReturns(ps)
                  /\ trace' = <<"push">>
    /\ k' = 0 /\ update_stats' = <<>> /\ loss_lists' = EmptyLosses
    /\ total_update_time' = 0 /\ pending_loss' = NoLoss /\ ret' = <<>>
    /\ src' = "none"
    /\ UNCHANGED <<cfgVars, policyVars, qfun, writer_log, replay_ret, samp_obs, samp_act,
                   Qs, Vs, raw_weights, observations, actions, weights, surr_before,
                   stepVars, cur0, old0, batch_degenerate>>

\* one pass of the loop, first half: self.baseline.bellman_update(all_losses=True)
BellmanUpdate ==
    /\ pc = "loop"
    /\ LoopContinues(k, num_policy_updates)
    /\ \E b \in BellmanCases :
          /\ qfun' = b.qfun
          /\ pending_loss' = [total |-> b.total, bellman |-> b.bellman,
                              reconstruction |-> b.reconstruction, reward |-> b.reward,
                              update_time |-> b.update_time]
    /\ trace' = Append(trace, "bellman")
    /\ pc' = "select"
    /\ UNCHANGED <<cfgVars, policyVars, buffer, writer_log, err, iteration, paths, k,
                   update_stats, loss_lists, total_update_time, ret, srcVars, stepVars,
                   cur0, old0, batch_degenerate>>

\* update_policy, lines 176-185: the advantage source, the unpacking of its
\* result, the weight normalisation and surr_before
UseOnPolicy == fit_on_policy /\ k = 0

UpdatePolicyFromPaths ==
    /\ pc = "select"
    /\ UseOnPolicy
    /\ LET t == ProcessPaths(paths, qfun)
           w == NormalizeWeights(t.weights)
       IN  /\ src' = "paths"
           /\ observations' = t.observations /\ actions' = t.actions
           /\ Qs' = t.Qs /\ Vs' = t.Vs /\ raw_weights' = t.weights
           /\ batch_degenerate' = (t.Qs = t.Vs)
           /\ weights' = w
           /\ \E u \in SurrCases(cur_params, old_params, w) :
                 surr_before' = CPISurrogate(cur_params, old_params, w, u)
    /\ pc' = "step"
    /\ cur0' = cur_params /\ old0' = old_params
    /\ trace' = Append(trace, "policy")
    /\ UNCHANGED <<cfgVars, policyVars, qfun, buffer, writer_log, err, loopVars,
                   replay_ret, samp_obs, samp_act, stepVars>>

UpdatePolicyFromReplay ==
    /\ pc = "select"
    /\ ~UseOnPolicy
    /\ \E samples \in GetSample(buffer, num_update_states),
          acts \in GetActionBatch(num_update_states) :
          LET r == ProcessReplay(samples, acts, qfun)
          IN  /\ src' = "replay"
              /\ samp_obs' = r.observations /\ samp_act' = r.actions
              /\ Qs' = r.Qs /\ Vs' = r.Vs
              /\ batch_degenerate' = (r.Qs = r.Vs)
              /\ replay_ret' = r.returned
              /\ IF ~UnpackOk(r.returned)
                 THEN \* ValueError: the array does not unpack into three names
                      /\ pc' = "fatal" /\ err' = "unpack"
                      /\ UNCHANGED <<raw_weights, observations, actions, weights, surr_before>>
                 ELSE \* the three rows of the weights array are taken for
                      \* observations, actions and weights
                      /\ observations' = <<r.returned[1]>>
                      /\ actions' = <<r.returned[2]>>
                      /\ raw_weights' = <<r.returned[3]>>
                      /\ weights' = NormalizeWeights(<<r.returned[3]>>)
                      /\ \E u \in SurrCases(cur_params, old_params,
                                             NormalizeWeights(<<r.returned[3]>>)),
                            accepted \in BOOLEAN :
                            \* CPI_surrogate is handed two weight rows in place of
                            \* observations and actions: it may reject them
                            IF accepted
                            THEN /\ pc' = "step" /\ err' = "none"
                                 /\ surr_before' = CPISurrogate(cur_params, old_params,
                                                       NormalizeWeights(<<r.returned[3]>>), u)
                            ELSE /\ pc' = "fatal" /\ err' = "external"
                                 /\ UNCHANGED surr_before
    /\ cur0' = cur_params /\ old0' = old_params
    /\ trace' = Append(trace, "policy")
    /\ UNCHANGED <<cfgVars, policyVars, qfun, buffer, writer_log, loopVars, stepVars>>

\* update_from_states_actions: gradient, CG direction, step size, and the write
\* of new_params to the policy's current parameters
UpdateFromStatesActions ==
    /\ pc = "step"
    /\ \E c \in GradDirCases(weights) :
          LET gd == Dot(c.g, c.d)
              a == StepAlpha(alpha_cfg, n_step_size, gd)
              np == NewParams(cur_params, a, c.d)
          IN  /\ vpg_grad' = c.g /\ npg_grad' = c.d
              /\ alpha' = a
              /\ step_size' = StepSize(alpha_cfg, n_step_size, gd)
              /\ new_params' = np
              /\ cur_params' = IF StepSetsNew THEN np ELSE cur_params
              /\ old_params' = IF StepSetsOld THEN np ELSE old_params
    /\ pc' = "check"
    /\ UNCHANGED <<cfgVars, qfun, buffer, writer_log, err, loopVars, srcVars,
                   cur0, old0, batch_degenerate, trace>>

\* "if np.isnan(new_params).any(): raise RuntimeError"
NanCheckFails(p) == HasNaN(p)

\* update_policy, lines 188-195, and the bookkeeping of the loop body; the
\* wall-clock fields of the diagnostics tuple (t_gLL, t_FIM) are not carried
UpdatePolicyFinish ==
    /\ pc = "check"
    /\ IF NanCheckFails(new_params)
       THEN /\ pc' = "fatal" /\ err' = "nan_params"
            /\ UNCHANGED <<policyVars, k, update_stats, loss_lists, total_update_time>>
       ELSE /\ \E u \in SurrCases(cur_params, old_params, weights) :
                  update_stats' = Append(update_stats,
                      [alpha |-> alpha, n_step_size |-> step_size,
                       surr_before |-> surr_before,
                       surr_after |-> CPISurrogate(cur_params, old_params, weights, u),
                       kl_dist |-> KlOldNew(cur_params, old_params)])
            /\ cur_params' = new_params /\ old_params' = new_params
            /\ loss_lists' = [total |-> Append(loss_lists.total, pending_loss.total),
                              bellman |-> Append(loss_lists.bellman, pending_loss.bellman),
                              reconstruction |-> Append(loss_lists.reconstruction,
                                                        pending_loss.reconstruction),
                              reward |-> Append(loss_lists.reward, pending_loss.reward)]
            /\ total_update_time' = total_update_time + pending_loss.update_time
            /\ k' = k + 1
            /\ pc' = "loop" /\ err' = "none"
    /\ IF NanCheckFails(new_params)
       THEN UNCHANGED <<srcVars, vpg_grad, npg_grad, alpha, step_size>>
       ELSE \* update_policy has returned: its locals are gone
            /\ src' = "none" /\ replay_ret' = <<>> /\ samp_obs' = <<>> /\ samp_act' = <<>>
            /\ Qs' = <<>> /\ Vs' = <<>> /\ raw_weights' = <<>>
            /\ observations' = <<>> /\ actions' = <<>> /\ weights' = <<>>
            /\ surr_before' = 0
            /\ vpg_grad' = ZeroVec /\ npg_grad' = ZeroVec /\ alpha' = AlphaFin(0, 1)
            /\ step_size' = 0
    /\ UNCHANGED <<cfgVars, qfun, buffer, writer_log, iteration, paths,
                   pending_loss, ret, new_params, cur0, old0, batch_degenerate, trace>>

\* --------------------------------------------------- summary and metrics
PathReturns(ps) == [i \in 1..Len(ps) |-> SumSeq(ps[i].rewards)]
Summary(ps) ==
    LET r == PathReturns(ps)
    IN  <<Mean(r), Std(r), MinSeq(r), MaxSeq(r)>>

Scalar(tag, sub, value) == [tag |-> tag, sub |-> sub, value |-> value]
\* _log_stats: three scalars per loss array
LogStats(key, i, losses) ==
    {Scalar("Mean" \o key, i, Mean(losses)), Scalar("Max" \o key, i, MaxSeq(losses)),
     Scalar("Min" \o key, i, MinSeq(losses))}
\* np.mean of a list of means (NaN for the empty list)
MeanOrNaN(s) == IF s = <<>> THEN NaN ELSE Mean(s)
\* the scalars of lines 110-161 whose values the model carries
WriterScalars(ps, stats, ll, btime, buflen) ==
    LET s == Summary(ps)
        n == Len(stats)
    IN  {Scalar("MeanReturn/train", 0, s[1]), Scalar("StdReturn/train", 0, s[2]),
         Scalar("MinReturn/train", 0, s[3]), Scalar("MaxReturn/train", 0, s[4]),
         Scalar("BufferSize", 0, buflen), Scalar("Time/BellmanUpdate", 0, btime)}
        \cup {Scalar("delta", i - 1, stats[i].n_step_size) : i \in 1..n}
        \cup {Scalar("kl_dist", i - 1, stats[i].kl_dist) : i \in 1..n}
        \cup {Scalar("surr_improvement", i - 1,
                     FSub(stats[i].surr_after, stats[i].surr_before)) : i \in 1..n}
        \cup UNION {LogStats("TotalLoss", i - 1, ll.total[i]) : i \in 1..n}
        \cup UNION {LogStats("BellmanLoss", i - 1, ll.bellman[i]) : i \in 1..n}
        \cup UNION {LogStats("ReconstructionLoss", i - 1, ll.reconstruction[i]) : i \in 1..n}
        \cup UNION {LogStats("RewardLoss", i - 1, ll.reward[i]) : i \in 1..n}
        \cup {Scalar("MeanTotalLoss/mean", 0,
                     MeanOrNaN([i \in 1..n |-> Mean(ll.total[i])])),
              Scalar("MeanBellmanLoss/mean", 0,
                     MeanOrNaN([i \in 1..n |-> Mean(ll.bellman[i])])),
              Scalar("MeanReconstructionLoss/mean", 0,
                     MeanOrNaN([i \in 1..n |-> Mean(ll.reconstruction[i])])),
              Scalar("MeanRewardLoss/mean", 0,
                     MeanOrNaN([i \in 1..n |-> Mean(ll.reward[i])]))}

\* train_step after the loop: the return statistics, the optional metrics and
\* the returned summary
TrainStepReturn ==
    /\ pc = "loop"
    /\ ~LoopContinues(k, num_policy_updates)
    /\ writer_log' = IF summary_writer
                     THEN writer_log \cup WriterScalars(paths, update_stats, loss_lists,
                                                        total_update_time, Len(buffer))
                     ELSE writer_log
    /\ ret' = Summary(paths)
    /\ pc' = "done"
    /\ UNCHANGED <<cfgVars, policyVars, qfun, buffer, err, iteration, paths, k,
                   update_stats, loss_lists, total_update_time, pending_loss,
                   srcVars, stepVars, cur0, old0, batch_degenerate, trace>>

Next ==
    \/ TrainStepEntry
    \/ BellmanUpdate
    \/ UpdatePolicyFromPaths
    \/ UpdatePolicyFromReplay
    \/ UpdateFromStatesActions
    \/ UpdatePolicyFinish
    \/ TrainStepReturn

Spec == Init /\ [][Next]_vars
\* =============================================================== claims
GD == Dot(vpg_grad, npg_grad)
TrustRegionMode == alpha_cfg = None
\* equality of two floating point values: NaN equals nothing
FEq(x, y) == ~IsNaN(x) /\ ~IsNaN(y) /\ x = y
LastStat == update_stats[Len(update_stats)]
RECURSIVE SubIterations(_)
SubIterations(n) == IF n = 0 THEN <<>> ELSE SubIterations(n - 1) \o <<"bellman", "policy">>
ExpectedTrace(n) == <<"push">> \o SubIterations(n)
IsPrefix(s, t) == Len(s) <= Len(t) /\ \A i \in 1..Len(s) : s[i] = t[i]
\* |num/den - n| <= |n| / 100, for den > 0
WithinOnePercent(num, den, n) == 100 * IAbs(num - n * den) <= IAbs(n) * den

\* C1: once update_policy has computed a new_params with a non-finite entry
\* (NaN, +inf or -inf) the sub-iteration aborts: the only states holding such a
\* vector are the one before the check and the fatal one; no diagnostics tuple is
\* returned, no further sub-iteration runs and no summary is returned.
C1_NonFiniteAborts == HasNonFinite(new_params) => pc \in {"check", "fatal"}

\* C2 (as claimed): in the state in which update_policy aborts with the fatal
\* error, neither the current nor the reference parameters have been set to the
\* offending vector: both hold their values from the start of the sub-iteration.
C2_NothingApplied ==
    err = "nan_params" => cur_params = cur0 /\ old_params = old0

\* C2 (amended): in the state in which update_policy aborts with the fatal error,
\* the reference parameters still hold their value from the start of the
\* sub-iteration and are not the offending vector, while the current parameters
\* have already been set to it.
C2_ReferenceNotApplied ==
    err = "nan_params" =>
        /\ pc = "fatal"
        /\ HasNaN(new_params)
        /\ old_params = old0 /\ old_params # new_params
        /\ cur_params = new_params
C2_Witness == pc = "fatal" /\ err = "nan_params" /\ cur_params # cur0

\* C3: the advantage source of a sub-iteration is the on-policy trajectories exactly
\* when fit_on_policy is enabled and k = 0; otherwise it is a replay sample, and a
\* replay sample is used only when fit_off_policy is enabled.
C3_SourceSelection ==
    /\ src = "paths" => fit_on_policy /\ k = 0
    /\ src = "replay" => ~(fit_on_policy /\ k = 0) /\ fit_off_policy

\* C4: process_replay returns a triple (observations, actions, weights) like
\* process_paths: update_policy unpacks it without error into num_update_states
\* observations (those sampled from the buffer), as many actions (those resampled
\* from the current policy) and as many weights.
C4_ReplayTriple ==
    src = "replay" =>
        /\ err # "unpack"
        /\ observations = samp_obs /\ actions = samp_act
        /\ Len(observations) = num_update_states
        /\ Len(raw_weights) = num_update_states
        /\ Len(weights) = num_update_states

\* C5: a train_step call without an iteration index fails before doing anything:
\* no trajectories are kept, nothing is pushed to the buffer, no bellman_update or
\* policy update runs, and the policy's parameters are unchanged.
C5_NoIterationNoEffect ==
    err = "no_iteration" =>
        /\ pc = "fatal"
        /\ paths = <<>> /\ buffer = <<>> /\ trace = <<>>
        /\ qfun = "flat" /\ update_stats = <<>>
        /\ cur_params = cur0 /\ old_params = old0 /\ cur_params \in InitParams
C5_Witness == pc = "fatal" /\ err = "no_iteration" /\ iteration = None

\* C6 (as claimed): in trust-region mode, for every finite g.d (negative and zero
\* included), alpha >= 0 and the realized step alpha^2 * (g.d) is the target n.
C6_RealizedIsTarget ==
    (pc = "check" /\ TrustRegionMode /\ IsFinite(GD)) =>
        /\ alpha.kind = "fin"
        /\ WithinOnePercent(alpha.num * GD, alpha.den, n_step_size)

\* C6 (amended): in trust-region mode with a positive target n and a finite g.d,
\* alpha is never NaN or negative (it is +inf exactly when g.d + eps = 0); the
\* realized step alpha^2 * (g.d) is n * (g.d) / |g.d + eps|: for g.d > 0 it is
\* below n by n * eps / (g.d + eps) (within 1% of n once g.d >= 99 eps), for
\* g.d = 0 it is 0, and for g.d < 0 it is negative.
C6_RealizedBySign ==
    (pc = "check" /\ TrustRegionMode /\ IsFinite(GD)) =>
        /\ alpha.kind # "nan"
        /\ alpha.kind = "inf" <=> GD + ALPHA_EPS = 0
        /\ alpha.kind = "fin" =>
              /\ alpha.num >= 0 /\ alpha.den > 0
              /\ alpha.num = n_step_size /\ alpha.den = IAbs(GD + ALPHA_EPS)
              /\ GD > 0 => IAbs(alpha.num * GD - n_step_size * alpha.den)
                               <= n_step_size * ALPHA_EPS
              /\ GD >= 99 * ALPHA_EPS =>
                     WithinOnePercent(alpha.num * GD, alpha.den, n_step_size)
              /\ GD = 0 => alpha.num * GD = 0
              /\ GD < 0 => alpha.num * GD < 0
C6_Witness ==
    /\ pc = "check" /\ TrustRegionMode /\ GD < 0 /\ alpha.kind = "fin" /\ alpha.num > 0

\* C8: when the estimator returns Q = V for every sample the raw weights are all
\* zero, the normalized weights are all zero (the division raises nothing and
\* yields no NaN), the update leaves the parameters where they were without
\* tripping the NaN check, and the recorded diagnostics have surr_after =
\* surr_before and a zero KL divergence, in fixed-alpha and trust-region mode.
C8_DegenerateBatch ==
    /\ batch_degenerate /\ pc \in {"step", "check"} =>
          /\ Qs = Vs /\ Len(raw_weights) > 0
          /\ AllZero(raw_weights) /\ AllZero(weights)
    /\ batch_degenerate /\ pc = "check" =>
          /\ alpha.kind = "fin"
          /\ new_params = cur0 /\ cur_params = cur0 /\ ~NanCheckFails(new_params)
    /\ batch_degenerate /\ pc = "fatal" => err \in {"unpack", "external"}
    /\ batch_degenerate /\ pc \in {"loop", "done"} =>
          /\ Len(update_stats) = k /\ k > 0
          /\ FEq(LastStat.surr_after, LastStat.surr_before)
          /\ FEq(LastStat.kl_dist, 0)
          /\ cur_params = cur0 /\ old_params = cur0
C8_Witness ==
    /\ pc = "loop" /\ batch_degenerate /\ k = 1 /\ fit_on_policy
    /\ TrustRegionMode /\ LastStat.alpha.num > 0 /\ FEq(LastStat.kl_dist, 0)

\* C9: during a sub-iteration the reference parameters keep their value from its
\* start while the current parameters are moved to new_params; the reference is
\* overwritten only once the NaN check has passed (not when it aborts); after a
\* successful update_policy current and reference both equal new_params, so they
\* are equal at the start of every following sub-iteration.
C9_ReferenceFrozen ==
    /\ pc \in {"step", "check"} => old_params = old0
    /\ pc = "step" => cur_params = cur0
    /\ pc = "check" => cur_params = new_params
    /\ err = "nan_params" => old_params = old0
    /\ pc \in {"loop", "select", "done"} =>
          /\ cur_params = old_params
          /\ k > 0 => cur_params = new_params
C9_Witness ==
    /\ pc = "select" /\ k = 1 /\ cur_params # cur0
    /\ cur_params = new_params /\ old_params = new_params

\* C10: a train_step call that completes has pushed the whole batch of sampled
\* trajectories to the buffer exactly once, before any bellman_update or policy
\* update, and has then run exactly num_policy_updates sub-iterations, each one
\* bellman_update followed by one policy update, recording one diagnostics tuple
\* and one loss breakdown per sub-iteration.
C10_FixedOrder ==
    /\ IsPrefix(trace, ExpectedTrace(num_policy_updates))
    /\ pc \in {"loop", "select", "step", "check", "done"} =>
          /\ buffer = PushMany(<<>>, paths)
          /\ Len(Concat(paths, "observations")) > 0
    /\ pc \in {"loop", "done"} =>
          /\ trace = ExpectedTrace(k)
          /\ Len(update_stats) = k
          /\ Len(loss_lists.total) = k /\ Len(loss_lists.bellman) = k
          /\ Len(loss_lists.reconstruction) = k /\ Len(loss_lists.reward) = k
    /\ pc = "done" => k = num_policy_updates /\ Len(ret) = 4
C10_Witness ==
    /\ pc = "done" /\ num_policy_updates = 2 /\ Len(update_stats) = 2
    /\ trace = <<"push", "bellman", "policy", "bellman", "policy">>
====
